---- MODULE Spec2Model ----
(***************************************************************************)
(* Model of the AAC -> ALAC remux converter (aac2alac.py): tool lookup,    *)
(* argument checks, probe, policy gate, command construction, engine run   *)
(* in a scratch directory and the swap of the result into the destination. *)
(* Every run of main() is a process r; its local variables are functions   *)
(* over Runs.  The destination file system and the scratch area are shared.*)
(***************************************************************************)
EXTENDS Integers, Sequences, FiniteSets, TLC

(* ------------------------------ bounds -------------------------------- *)
\* number of converter processes the model knows
NumRuns == 2
\* longest stream list a probe returns
MaxStreams == 2

Runs == 1..NumRuns
\* names of scratch directories: every run makes at most one
TmpNames == Runs

(* --------------------------- exit codes ------------------------------- *)
EXIT_OK == 0
EXIT_ARGS == 1
EXIT_TOOLS == 2
EXIT_NOT_AAC == 3
EXIT_FFMPEG_FAIL == 4
\* status of an interpreter that ends on an uncaught exception
EXIT_UNCAUGHT == 1
\* status argparse exits with on a usage error
EXIT_USAGE == 2
\* signal sent by Popen.terminate()
SIGTERM == 15

(* ----------------------------- strings -------------------------------- *)
(* Python strings are TLA+ strings; Chars gives the code points of the    *)
(* strings the model uses, and the str methods compute on code points.    *)
Chars ==
  [s \in {"", "?", "aac", "AAC", "mp3", "ac3", ".mov", "d", "o", "o.mov", "o.MOV",
          "d/o", "d/o.mov", "d/o.MOV"} |->
     CASE s = ""      -> << >>
       [] s = "?"     -> <<63>>
       [] s = "aac"   -> <<97, 97, 99>>
       [] s = "AAC"   -> <<65, 65, 67>>
       [] s = "mp3"   -> <<109, 112, 51>>
       [] s = "ac3"   -> <<97, 99, 51>>
       [] s = ".mov"  -> <<46, 109, 111, 118>>
       [] s = "o"     -> <<111>>
       [] s = "o.mov" -> <<111, 46, 109, 111, 118>>
       [] s = "o.MOV" -> <<111, 46, 77, 79, 86>>
       [] s = "d"     -> <<100>>
       [] s = "d/o"     -> <<100, 47, 111>>
       [] s = "d/o.mov" -> <<100, 47, 111, 46, 109, 111, 118>>
       [] s = "d/o.MOV" -> <<100, 47, 111, 46, 77, 79, 86>>]

Strings == DOMAIN Chars

FromChars(cs) == CHOOSE s \in Strings : Chars[s] = cs

\* str.lower() on one code point: A..Z -> a..z
LowerChar(c) == IF c >= 65 /\ c <= 90 THEN c + 32 ELSE c

\* str.lower()
Lower(s) == FromChars([i \in 1..Len(Chars[s]) |-> LowerChar(Chars[s][i])])

\* str.endswith(suffix)
EndsWith(s, suffix) ==
  LET cs == Chars[s]
      su == Chars[suffix]
  IN  /\ Len(su) <= Len(cs)
      /\ SubSeq(cs, Len(cs) - Len(su) + 1, Len(cs)) = su

\* s + t
Concat(s, t) == FromChars(Chars[s] \o Chars[t])

\* s < t as Python compares str: lexicographic on code points
StrLess(s, t) ==
  LET cs == Chars[s]
      ct == Chars[t]
  IN  \E k \in 0..Len(cs) :
        /\ k <= Len(ct)
        /\ \A i \in 1..k : cs[i] = ct[i]
        /\ \/ (k = Len(cs) /\ k < Len(ct))
           \/ (k < Len(cs) /\ k < Len(ct) /\ cs[k + 1] < ct[k + 1])

\* index of the last "/" of a path, 0 when it has none
LastSlash(cs) ==
  IF \E i \in 1..Len(cs) : cs[i] = 47
    THEN CHOOSE i \in 1..Len(cs) : cs[i] = 47 /\ \A j \in (i + 1)..Len(cs) : cs[j] # 47
    ELSE 0

\* os.path.basename
Basename(s) == FromChars(SubSeq(Chars[s], LastSlash(Chars[s]) + 1, Len(Chars[s])))

\* os.path.dirname, for paths with at most a relative directory part
Dirname(s) == FromChars(SubSeq(Chars[s], 1, LastSlash(Chars[s]) - 1))

\* truthiness of a str
Truthy(s) == s # ""

(* Optional values: None is << >>, a present value v is <<v>>. *)
None == << >>
Some(v) == <<v>>
IsNone(o) == o = << >>

(* --------------------------- input domains ---------------------------- *)
\* values of the positional argument "output"
OutputArgs == {"d/o", "d/o.MOV"}
\* paths of the destination directory the model follows
Paths == {"d/o", "d/o.mov", "d/o.MOV"}
\* what a path of the destination directory holds
NoFile == "none"
OldFile == "old"
PartialFile == "partial"
NewFile == "new"
\* what a scratch directory holds: it does not exist, is empty, or holds the
\* engine's output, incomplete or complete
NoDir == "nodir"
EmptyDir == "empty"

ThreadArgs == {None, Some(0), Some(4)}
MovflagArgs == {None, Some(""), Some("+x")}

\* str(threads)
IntStr(n) == CASE n = 0 -> "0" [] n = 4 -> "4"

\* one entry of the prober's "streams" array; codec_name may be missing
AudioStreams ==
  {[codec_type |-> "audio", codec_name |-> c] : c \in {"aac", "AAC", "mp3", "ac3"}}
    \cup {[codec_type |-> "audio"]}
OtherStreams ==
  {[codec_type |-> "video", codec_name |-> "h264"], [codec_type |-> "subtitle"]}
StreamValues == AudioStreams \cup OtherStreams
StreamLists == UNION {[1..n -> StreamValues] : n \in 0..MaxStreams}

\* dict.get(k): None when the key is missing
Get(d, k) == IF k \in DOMAIN d THEN Some(d[k]) ELSE None

\* (x or dflt) for an optional str x: None and "" are falsy
OrElse(x, dflt) == IF IsNone(x) \/ ~Truthy(x[1]) THEN dflt ELSE x[1]

(* ------------------- the plugin's progress protocol ------------------- *)
\* the plugin's own code for a converter it could not start
EXIT_LAUNCH == 127
\* most clips in a selection, most lines read from one converter
MaxClips == 2
MaxLines == 2

\* lines a converter may write, as the pipe delivers them (newline included)
LineChars ==
  [s \in {"PROGRESS 42.5", "PROGRESS 7", "PROGRESS -3.5", "PROGRESS 250.9",
          "PROGRESS nan", "PROGRESS x", "PROGRESS", "Done"} |->
     CASE s = "PROGRESS 42.5"  -> <<80, 82, 79, 71, 82, 69, 83, 83, 32, 52, 50, 46, 53, 10>>
       [] s = "PROGRESS 7"     -> <<80, 82, 79, 71, 82, 69, 83, 83, 32, 55, 10>>
       [] s = "PROGRESS -3.5"  -> <<80, 82, 79, 71, 82, 69, 83, 83, 32, 45, 51, 46, 53, 10>>
       [] s = "PROGRESS 250.9" -> <<80, 82, 79, 71, 82, 69, 83, 83, 32, 50, 53, 48, 46, 57, 10>>
       [] s = "PROGRESS nan"   -> <<80, 82, 79, 71, 82, 69, 83, 83, 32, 110, 97, 110, 10>>
       [] s = "PROGRESS x"     -> <<80, 82, 79, 71, 82, 69, 83, 83, 32, 120, 10>>
       [] s = "PROGRESS"       -> <<80, 82, 79, 71, 82, 69, 83, 83, 32, 10>>
       [] s = "Done"           -> <<68, 111, 110, 101, 10>>]
Lines == DOMAIN LineChars

\* "PROGRESS "
ProgressPrefix == <<80, 82, 79, 71, 82, 69, 83, 83, 32>>

IsSpace(c) == c \in {9, 10, 11, 12, 13, 32}
IsDigit(c) == c >= 48 /\ c <= 57

\* str.strip()
Strip(cs) ==
  LET keep == {i \in 1..Len(cs) : ~IsSpace(cs[i])}
  IN  IF keep = {} THEN << >>
      ELSE SubSeq(cs, CHOOSE i \in keep : \A j \in keep : i <= j,
                      CHOOSE i \in keep : \A j \in keep : i >= j)

\* str.startswith(prefix)
StartsWith(cs, prefix) ==
  Len(prefix) <= Len(cs) /\ SubSeq(cs, 1, Len(prefix)) = prefix

\* str.split(" ", 1): the parts before and after the first blank, or the
\* string alone when it has none
SplitOnce(cs) ==
  LET blanks == {i \in 1..Len(cs) : cs[i] = 32}
  IN  IF blanks = {} THEN <<cs>>
      ELSE LET k == CHOOSE i \in blanks : \A j \in blanks : i <= j
           IN  <<SubSeq(cs, 1, k - 1), SubSeq(cs, k + 1, Len(cs))>>

\* a float, to one decimal: a number in tenths, or nan, inf, ninf; and the
\* outcome "ValueError" of a conversion that raised
Num(t) == [kind |-> "num", tenths |-> t]
NaN == [kind |-> "nan", tenths |-> 0]
Inf == [kind |-> "inf", tenths |-> 0]
NegInf == [kind |-> "ninf", tenths |-> 0]
ValueError == [kind |-> "ValueError", tenths |-> 0]

RECURSIVE DigitsValue(_)
\* value of a run of decimal digits
DigitsValue(ds) ==
  IF ds = << >> THEN 0
  ELSE 10 * DigitsValue(SubSeq(ds, 1, Len(ds) - 1)) + (ds[Len(ds)] - 48)

AllDigits(ds) == \A i \in 1..Len(ds) : IsDigit(ds[i])

\* float(str) for decimal literals without exponent and for nan/inf: blanks
\* around are ignored, digits after the first decimal are dropped
ParseFloat(text) ==
  LET t == Strip(text)
      neg == t # << >> /\ t[1] = 45
      signed == t # << >> /\ t[1] \in {43, 45}
      body == IF signed THEN SubSeq(t, 2, Len(t)) ELSE t
      low == [i \in 1..Len(body) |-> LowerChar(body[i])]
      dots == {i \in 1..Len(body) : body[i] = 46}
      dot == IF dots = {} THEN Len(body) + 1 ELSE CHOOSE i \in dots : \A j \in dots : i <= j
      ip == SubSeq(body, 1, dot - 1)
      fp == SubSeq(body, dot + 1, Len(body))
      mag == 10 * DigitsValue(ip) + (IF fp = << >> THEN 0 ELSE fp[1] - 48)
  IN  IF low = <<110, 97, 110>> THEN NaN
      ELSE IF low = <<105, 110, 102>> THEN (IF neg THEN NegInf ELSE Inf)
      ELSE IF AllDigits(ip) /\ AllDigits(fp) /\ (ip # << >> \/ fp # << >>)
        THEN Num(IF neg THEN 0 - mag ELSE mag)
      ELSE ValueError

\* a < b and a > b as Python compares a float with an int n
FloatLt(a, n) == (a.kind = "num" /\ a.tenths < 10 * n) \/ a.kind = "ninf"
FloatGt(a, n) == (a.kind = "num" /\ a.tenths > 10 * n) \/ a.kind = "inf"

\* min(100, v): the first argument unless the second is smaller
Min100(v) == IF FloatLt(v, 100) THEN v ELSE Num(1000)
\* max(0, m): the first argument unless the second is larger
Max0(m) == IF FloatGt(m, 0) THEN m ELSE Num(0)

\* int(x): truncation towards zero of a finite number
PyInt(x) == IF x.tenths >= 0 THEN x.tenths \div 10 ELSE 0 - ((0 - x.tenths) \div 10)

\* the number set_pct shows for v, without the clamp
set_pct_unclamped(v) == PyInt(v)

\* ProgressDialog.set_pct: v = int(max(0, min(100, v))), shown by the widget
set_pct(v) == PyInt(Max0(Min100(v)))

\* what the reading loop shows after a line, given what it showed before:
\* only a stripped line that starts with "PROGRESS " and carries a float
\* changes it
AfterLine(shown, l) ==
  LET stripped == Strip(LineChars[l])
  IN  IF StartsWith(stripped, ProgressPrefix)
        THEN LET pct == ParseFloat(SplitOnce(stripped)[2])
             IN  IF pct = ValueError THEN shown ELSE set_pct(pct)
        ELSE shown

(* ------------------------------ state --------------------------------- *)
VARIABLES
  pc,          \* where each run of main() is
  argv,        \* command line each run was started with
  args,        \* parsed arguments of each run
  ffmpeg_bin,  \* resolved engine path
  streams,     \* probed stream list, None before the probe returned one
  cmd,         \* engine command
  real_out,    \* destination path with the container extension
  tmp_dir,     \* scratch directory of the run, None before mkdtemp
  engine,      \* the engine subprocess: "none", "running", "exit0", "exit1"
  proc,        \* CompletedProcess of the engine, None outside the lines that read it
  exc,         \* an exception is propagating out of the try block
  raised,      \* the exception a file operation of the run raised, None if none did
  exit_code,   \* exit status of the process, None while it runs
  stdout,      \* lines written to standard output
  stderr,      \* lines written to standard error
  launched,    \* subprocesses the run has started, in order
  fs,          \* destination directory: path -> content
  scratch,     \* scratch area: name -> content
  fs0,         \* destination directory before any run started
  destOps      \* operations each run performed on destination paths

convVars == <<pc, argv, args, ffmpeg_bin, streams, cmd, real_out, tmp_dir, engine, proc,
              exc, raised, exit_code, stdout, stderr, launched>>
fsVars == <<fs, scratch, fs0, destOps>>

\* the plugin (convert_aac_to_alac.py): one batch over the selected clips
VARIABLES
  ppc,         \* where the plugin's main() is
  nclips,      \* number of selected clips
  clip,        \* index of the clip of the current iteration, 0 before the first
  child,       \* the converter subprocess: "none", "running", "signalled"
  nread,       \* lines read from the current converter
  cur_line,    \* the line read last from the current converter, None before one
  conv_rc,     \* rc: return value of run_converter_with_progress, None before it
  bar,         \* the number the progress widget shows
  bar_kind,    \* the widget: "progressbar", "slider" or "label"
  cancelled,   \* ProgressDialog._cancelled
  cur_folder,  \* current folder of the media pool
  cur,         \* import_into_bin's saved folder, None outside it
  pexc,        \* an exception is propagating out of import_into_bin's try
  bins,        \* names of the root folder's bins
  calls        \* the current iteration: its start, then what it did to the converter
               \* and the media pool

plugVars == <<ppc, nclips, clip, child, nread, cur_line, conv_rc, bar, bar_kind, cancelled,
              cur_folder, cur, pexc, bins, calls>>
vars == <<convVars, fsVars, plugVars>>

\* command lines: the declared arguments, and whether --progress is passed
Argvs == [output : OutputArgs, no_overwrite : BOOLEAN, threads : ThreadArgs,
          movflags : MovflagArgs, progress : BOOLEAN]
NoArgv == [output |-> "", no_overwrite |-> FALSE, threads |-> None, movflags |-> None,
           progress |-> FALSE]
NoArgs == [output |-> "", no_overwrite |-> FALSE, threads |-> None, movflags |-> None]

InitRun(active) ==
  /\ pc = [r \in Runs |-> IF r \in active THEN "parse" ELSE "idle"]
  /\ \E a \in [active -> Argvs] :
       argv = [r \in Runs |-> IF r \in active THEN a[r] ELSE NoArgv]
  /\ args = [r \in Runs |-> NoArgs]
  /\ ffmpeg_bin = [r \in Runs |-> None]
  /\ streams = [r \in Runs |-> None]
  /\ cmd = [r \in Runs |-> << >>]
  /\ real_out = [r \in Runs |-> ""]
  /\ tmp_dir = [r \in Runs |-> None]
  /\ engine = [r \in Runs |-> "none"]
  /\ proc = [r \in Runs |-> None]
  /\ exc = [r \in Runs |-> FALSE]
  /\ raised = [r \in Runs |-> None]
  /\ exit_code = [r \in Runs |-> None]
  /\ stdout = [r \in Runs |-> << >>]
  /\ stderr = [r \in Runs |-> << >>]
  /\ launched = [r \in Runs |-> << >>]
  /\ fs \in [Paths -> {NoFile, OldFile}]
  /\ scratch = [t \in TmpNames |-> NoDir]
  /\ fs0 = fs
  /\ destOps = [r \in Runs |-> << >>]

\* widgets _make_progress_widget may build
BarKinds == {"progressbar", "slider", "label"}
\* folders of the media pool that may be current when the script starts
Folders == {"Master", "Footage"}
\* the bin converted files are imported into
ALAC_BIN == "ALAC Converted"

\* the plugin is not running
NoPlugin ==
  /\ ppc = "idle"
  /\ nclips = 0
  /\ clip = 0
  /\ child = "none"
  /\ nread = 0
  /\ cur_line = None
  /\ conv_rc = None
  /\ bar = 0
  /\ bar_kind = "label"
  /\ cancelled = FALSE
  /\ cur_folder = "Master"
  /\ cur = None
  /\ pexc = FALSE
  /\ bins = {}
  /\ calls = << >>

\* one invocation of the converter
Init == InitRun({1}) /\ NoPlugin

(* ----------------------------- helpers -------------------------------- *)
\* return code from main(): sys.exit(main())
Return(r, code) ==
  /\ pc' = [pc EXCEPT ![r] = "exited"]
  /\ exit_code' = [exit_code EXCEPT ![r] = Some(code)]

\* print(..., file=sys.stderr)
PrintErr(r, line) == stderr' = [stderr EXCEPT ![r] = Append(@, line)]

\* print(...)
PrintOut(r, line) == stdout' = [stdout EXCEPT ![r] = Append(@, line)]

Goto(r, label) == pc' = [pc EXCEPT ![r] = label]

\* which_or(path, fallback): path when it names a file, else shutil.which(fallback)
which_or(path, is_file, which) ==
  IF ~IsNone(path) /\ is_file THEN path ELSE which

(* ------------------------ argument parsing ---------------------------- *)
\* p.parse_args(): an argument the parser does not declare is a usage error
ParseArgs(r) ==
  /\ pc[r] = "parse"
  /\ IF argv[r].progress
       THEN /\ PrintErr(r, [kind |-> "usage"])
            /\ Return(r, EXIT_USAGE)
            /\ UNCHANGED args
       ELSE /\ args' = [args EXCEPT ![r] = [output |-> argv[r].output,
                                             no_overwrite |-> argv[r].no_overwrite,
                                             threads |-> argv[r].threads,
                                             movflags |-> argv[r].movflags]]
            /\ Goto(r, "resolve")
            /\ UNCHANGED <<exit_code, stderr>>
  /\ UNCHANGED <<argv, raised, ffmpeg_bin, streams, cmd, real_out, tmp_dir, engine, proc, exc, stdout,
                 launched, fsVars>>
  /\ UNCHANGED plugVars

\* which_or for both tools, then the check that both were found; --ffmpeg and
\* --ffprobe, when given, name the path the system lookup would find
ResolveTools(r) ==
  /\ pc[r] = "resolve"
  /\ \E mpegArg \in {None, Some("/usr/bin/ffmpeg")}, mpegIsFile \in BOOLEAN,
        mpegWhich \in {None, Some("/usr/bin/ffmpeg")},
        probeArg \in {None, Some("/usr/bin/ffprobe")}, probeIsFile \in BOOLEAN,
        probeWhich \in {None, Some("/usr/bin/ffprobe")} :
       LET mpeg == which_or(mpegArg, mpegIsFile, mpegWhich)
           probe == which_or(probeArg, probeIsFile, probeWhich)
       IN  IF IsNone(mpeg) \/ IsNone(probe)
             THEN /\ PrintErr(r, [kind |-> "tools_not_found"])
                  /\ Return(r, EXIT_TOOLS)
                  /\ UNCHANGED ffmpeg_bin
             ELSE /\ ffmpeg_bin' = [ffmpeg_bin EXCEPT ![r] = mpeg]
                  /\ Goto(r, "check_input")
                  /\ UNCHANGED <<exit_code, stderr>>
  /\ UNCHANGED <<argv, raised, args, streams, cmd, real_out, tmp_dir, engine, proc, exc, stdout,
                 launched, fsVars>>
  /\ UNCHANGED plugVars

\* os.path.isfile(infile)
CheckInput(r) ==
  /\ pc[r] = "check_input"
  /\ \E is_file \in BOOLEAN :
       IF ~is_file
         THEN /\ PrintErr(r, [kind |-> "input_not_found"])
              /\ Return(r, EXIT_ARGS)
         ELSE /\ Goto(r, "check_overwrite")
              /\ UNCHANGED <<exit_code, stderr>>
  /\ UNCHANGED <<argv, raised, args, ffmpeg_bin, streams, cmd, real_out, tmp_dir, engine, proc, exc,
                 stdout, launched, fsVars>>
  /\ UNCHANGED plugVars

\* args.no_overwrite and os.path.exists(outfile)
CheckOverwrite(r) ==
  /\ pc[r] = "check_overwrite"
  /\ IF args[r].no_overwrite /\ fs[args[r].output] # NoFile
       THEN /\ PrintErr(r, [kind |-> "output_exists"])
            /\ Return(r, EXIT_ARGS)
       ELSE /\ Goto(r, "probe")
            /\ UNCHANGED <<exit_code, stderr>>
  /\ UNCHANGED <<argv, raised, args, ffmpeg_bin, streams, cmd, real_out, tmp_dir, engine, proc, exc,
                 stdout, launched, fsVars>>
  /\ UNCHANGED plugVars

(* ------------------------------ probe --------------------------------- *)
\* ffprobe_streams inside main's try: a non-zero exit of the prober and output
\* that json.loads rejects both raise, and main turns either into EXIT_TOOLS;
\* a document without "streams" yields the empty list
Probe(r) ==
  /\ pc[r] = "probe"
  /\ launched' = [launched EXCEPT ![r] = Append(@, "ffprobe")]
  /\ \/ /\ \E why \in {"ffprobe_failed", "bad_json"} :
             PrintErr(r, [kind |-> "ffprobe_error", why |-> why])
        /\ Return(r, EXIT_TOOLS)
        /\ UNCHANGED streams
     \/ /\ \E ss \in StreamLists : streams' = [streams EXCEPT ![r] = Some(ss)]
        /\ Goto(r, "policy")
        /\ UNCHANGED <<exit_code, stderr>>
  /\ UNCHANGED <<argv, raised, args, ffmpeg_bin, cmd, real_out, tmp_dir, engine, proc, exc,
                 stdout, fsVars>>
  /\ UNCHANGED plugVars

(* --------------------------- policy gate ------------------------------ *)
Range(seq) == {seq[i] : i \in 1..Len(seq)}

IsAudio(s) == Get(s, "codec_type") = Some("audio")

\* [s for s in streams if s.get("codec_type") == "audio"]
audio_streams(ss) == SelectSeq(ss, IsAudio)

\* the comparison of line 122 for one stream; NotAacUncased is the same
\* comparison without .lower(), NotAacInverted the one with == for !=
NotAacUncased(s) == OrElse(Get(s, "codec_name"), "") # "aac"
NotAacInverted(s) == Lower(OrElse(Get(s, "codec_name"), "")) = "aac"
NotAac(s) == Lower(OrElse(Get(s, "codec_name"), "")) # "aac"

\* [s for s in audio_streams if (s.get("codec_name") or "").lower() != "aac"]
non_aac(ss) == SelectSeq(audio_streams(ss), NotAac)

\* least element of a non-empty set of str
MinStr(S) == CHOOSE x \in S : \A y \in S \ {x} : StrLess(x, y)

RECURSIVE SortedStrs(_)
\* sorted(S) for a set of str
SortedStrs(S) == IF S = {} THEN << >> ELSE <<MinStr(S)>> \o SortedStrs(S \ {MinStr(S)})

\* sorted(set((s.get("codec_name") or "?") for s in non_aac)); ", ".join keeps
\* the names and their order, so the line is modelled by the list.
\* FoundUnsorted is the same expression without sorted(set(...))
FoundUnsorted(ss) == [i \in 1..Len(non_aac(ss)) |-> OrElse(Get(non_aac(ss)[i], "codec_name"), "?")]
Found(ss) == SortedStrs({OrElse(Get(s, "codec_name"), "?") : s \in Range(non_aac(ss))})

Policy(r) ==
  /\ pc[r] = "policy"
  /\ IF audio_streams(streams[r][1]) = << >>
       THEN /\ PrintErr(r, [kind |-> "no_audio"])
            /\ Return(r, EXIT_NOT_AAC)
       ELSE IF non_aac(streams[r][1]) # << >>
         THEN /\ PrintErr(r, [kind |-> "rejected", found |-> Found(streams[r][1])])
              /\ Return(r, EXIT_NOT_AAC)
         ELSE /\ Goto(r, "build")
              /\ UNCHANGED <<exit_code, stderr>>
  /\ UNCHANGED <<argv, raised, args, ffmpeg_bin, streams, cmd, real_out, tmp_dir, engine, proc,
                 exc, stdout, launched, fsVars>>
  /\ UNCHANGED plugVars

(* ------------------------- command builder ---------------------------- *)
\* build_ffmpeg_cmd: the command and the output name with the extension
\* (build_ffmpeg_cmd_falsy is the same with "if not movflags" for "if movflags is None")
build_ffmpeg_cmd_falsy(bin, infile, outfile, threads, movflags) ==
  LET head == <<bin, "-y", "-hide_banner", "-nostdin">>
      thr == IF ~IsNone(threads) /\ threads[1] # 0
               THEN <<"-threads", IntStr(threads[1])>> ELSE << >>
      maps == <<"-map", "0:v?", "-c:v", "copy",
                "-map", "0:a?", "-c:a", "alac",
                "-map", "0:s?", "-c:s", "copy",
                "-map", "0:d?", "-c:d", "copy",
                "-map", "0:t?", "-c:t", "copy">>
      mf == IF IsNone(movflags) \/ ~Truthy(movflags[1]) THEN "+faststart" ELSE movflags[1]
      mov == IF Truthy(mf) THEN <<"-movflags", mf>> ELSE << >>
      out == IF ~EndsWith(Lower(outfile), ".mov") THEN Concat(outfile, ".mov") ELSE outfile
  IN  [cmd |-> head \o thr \o <<"-i", infile>> \o maps \o mov \o <<out>>, outfile |-> out]
build_ffmpeg_cmd(bin, infile, outfile, threads, movflags) ==
  LET head == <<bin, "-y", "-hide_banner", "-nostdin">>
      thr == IF ~IsNone(threads) /\ threads[1] # 0
               THEN <<"-threads", IntStr(threads[1])>> ELSE << >>
      maps == <<"-map", "0:v?", "-c:v", "copy",
                "-map", "0:a?", "-c:a", "alac",
                "-map", "0:s?", "-c:s", "copy",
                "-map", "0:d?", "-c:d", "copy",
                "-map", "0:t?", "-c:t", "copy">>
      mf == IF IsNone(movflags) THEN "+faststart" ELSE movflags[1]
      mov == IF Truthy(mf) THEN <<"-movflags", mf>> ELSE << >>
      out == IF ~EndsWith(Lower(outfile), ".mov") THEN Concat(outfile, ".mov") ELSE outfile
  IN  [cmd |-> head \o thr \o <<"-i", infile>> \o maps \o mov \o <<out>>, outfile |-> out]

Build(r) ==
  /\ pc[r] = "build"
  /\ LET b == build_ffmpeg_cmd(ffmpeg_bin[r][1], "in.mp4", args[r].output,
                               args[r].threads, args[r].movflags)
     IN  /\ cmd' = [cmd EXCEPT ![r] = b.cmd]
         /\ real_out' = [real_out EXCEPT ![r] = b.outfile]
  /\ Goto(r, "mkdtemp")
  /\ UNCHANGED <<argv, raised, args, ffmpeg_bin, streams, tmp_dir, engine, proc, exc, exit_code,
                 stdout, stderr, launched, fsVars>>
  /\ UNCHANGED plugVars

(* ----------------------- scratch area and engine ---------------------- *)
\* name of the directory mkdtemp(prefix="aac2alac_") created
TmpDirName(t) == "/tmp/aac2alac_" \o ToString(t)

\* os.path.join(tmp_dir, os.path.basename(real_out))
TmpOut(t, out) == TmpDirName(t) \o "/" \o Basename(out)

\* tempfile.mkdtemp (a directory that did not exist; which unused name it gets
\* makes no difference, the model takes the first), the engine's output
\* argument replaced by the scratch path, and the echo of the command
MakeTemp(r) ==
  /\ pc[r] = "mkdtemp"
  /\ \E t \in TmpNames :
       /\ scratch[t] = NoDir
       /\ \A u \in TmpNames : u < t => scratch[u] # NoDir
       /\ scratch' = [scratch EXCEPT ![t] = EmptyDir]
       /\ tmp_dir' = [tmp_dir EXCEPT ![r] = Some(t)]
       /\ cmd' = [cmd EXCEPT ![r] = SubSeq(@, 1, Len(@) - 1) \o <<TmpOut(t, real_out[r])>>]
  /\ PrintOut(r, [kind |-> "command", cmd |-> cmd'[r]])
  /\ Goto(r, "launch")
  /\ UNCHANGED <<argv, raised, args, ffmpeg_bin, streams, real_out, engine, proc, exc, exit_code,
                 stderr, launched, fs, fs0, destOps>>
  /\ UNCHANGED plugVars

\* run(cmd, capture=True): the engine subprocess starts
LaunchEngine(r) ==
  /\ pc[r] = "launch"
  /\ engine' = [engine EXCEPT ![r] = "running"]
  /\ launched' = [launched EXCEPT ![r] = Append(@, "ffmpeg")]
  /\ Goto(r, "wait")
  /\ UNCHANGED <<argv, raised, args, ffmpeg_bin, streams, cmd, real_out, tmp_dir, proc, exc,
                 exit_code, stdout, stderr, fsVars>>
  /\ UNCHANGED plugVars

\* the engine creates its output file in the scratch directory
EngineWrite(r) ==
  /\ engine[r] = "running"
  /\ scratch[tmp_dir[r][1]] = EmptyDir
  /\ scratch' = [scratch EXCEPT ![tmp_dir[r][1]] = PartialFile]
  /\ UNCHANGED <<convVars, fs, fs0, destOps>>
  /\ UNCHANGED plugVars

\* what the engine wrote to a captured stream
EngineOutputs == {"", "text"}

\* the engine terminates; its output file is complete when it exits zero; the
\* CompletedProcess exists when the converter is still there to collect it
EngineExit(r) ==
  /\ engine[r] = "running"
  /\ \E rc \in {0, 1}, out \in EngineOutputs, err \in EngineOutputs :
       /\ engine' = [engine EXCEPT ![r] = IF rc = 0 THEN "exit0" ELSE "exit1"]
       /\ proc' = [proc EXCEPT ![r] = IF pc[r] = "wait"
                                        THEN Some([returncode |-> rc, stdout |-> out, stderr |-> err])
                                        ELSE @]
       /\ scratch' = [scratch EXCEPT ![tmp_dir[r][1]] =
                        IF rc = 0 /\ @ # NoDir THEN NewFile ELSE @]
  /\ UNCHANGED <<pc, argv, raised, args, ffmpeg_bin, streams, cmd, real_out, tmp_dir, exc, exit_code,
                 stdout, stderr, launched, fs, fs0, destOps>>
  /\ UNCHANGED plugVars

\* lines a captured stream adds to standard error: nothing when it is empty
Forward(text) == IF Truthy(text) THEN <<[kind |-> "engine_output"]>> ELSE << >>

\* run() returns; a non-zero return code forwards the captured output and
\* returns EXIT_FFMPEG_FAIL; proc is not read after these lines
EngineReturned(r) ==
  /\ pc[r] = "wait"
  /\ engine[r] \in {"exit0", "exit1"}
  /\ IF proc[r][1].returncode # 0
       THEN /\ stderr' = [stderr EXCEPT ![r] = @ \o Forward(proc[r][1].stdout)
                                                 \o Forward(proc[r][1].stderr)]
            /\ Return(r, EXIT_FFMPEG_FAIL)
       ELSE /\ Goto(r, "makedirs")
            /\ UNCHANGED <<exit_code, stderr>>
  /\ proc' = [proc EXCEPT ![r] = None]
  /\ UNCHANGED <<argv, raised, args, ffmpeg_bin, streams, cmd, real_out, tmp_dir, engine, exc,
                 stdout, launched, fsVars>>
  /\ UNCHANGED plugVars

(* --------------------------- finalize --------------------------------- *)
\* an exception leaves main(): the interpreter prints the traceback and exits
Uncaught(r) ==
  /\ PrintErr(r, [kind |-> "traceback"])
  /\ Return(r, EXIT_UNCAUGHT)

LogOp(r, op, path) ==
  destOps' = [destOps EXCEPT ![r] = Append(@, [op |-> op, path |-> path, before |-> fs[path]])]

\* os.makedirs(os.path.dirname(real_out) or ".", exist_ok=True), before the try
\* block: it succeeds when the directory exists (it does when it holds a file)
\* and can raise when the directory has to be created
MakeDirs(r) ==
  /\ pc[r] = "makedirs"
  /\ \/ /\ Goto(r, "exists")
        /\ UNCHANGED <<exit_code, stderr>>
        /\ UNCHANGED raised
     \/ /\ \A p \in Paths : Dirname(p) = Dirname(real_out[r]) => fs[p] = NoFile
        /\ raised' = [raised EXCEPT ![r] = Some("OSError")]
        /\ Uncaught(r)
  /\ UNCHANGED <<argv, args, ffmpeg_bin, streams, cmd, real_out, tmp_dir, engine, proc, exc,
                 stdout, launched, fsVars>>
  /\ UNCHANGED plugVars

\* if os.path.exists(real_out):
ExistsCheck(r) ==
  /\ pc[r] = "exists"
  /\ Goto(r, IF fs[real_out[r]] # NoFile THEN "remove" ELSE "move")
  /\ UNCHANGED <<argv, raised, args, ffmpeg_bin, streams, cmd, real_out, tmp_dir, engine, proc, exc,
                 exit_code, stdout, stderr, launched, fsVars>>
  /\ UNCHANGED plugVars

\* os.remove(real_out): removes the file, or raises (the file is gone, or the
\* directory does not allow it)
Remove(r) ==
  /\ pc[r] = "remove"
  /\ \/ /\ fs[real_out[r]] # NoFile
        /\ fs' = [fs EXCEPT ![real_out[r]] = NoFile]
        /\ LogOp(r, "remove", real_out[r])
        /\ Goto(r, "move")
        /\ UNCHANGED <<exc, raised>>
     \/ /\ exc' = [exc EXCEPT ![r] = TRUE]
        /\ raised' = [raised EXCEPT ![r] = IF fs[real_out[r]] = NoFile
                                              THEN Some("FileNotFoundError")
                                              ELSE Some("PermissionError")]
        /\ Goto(r, "finally")
        /\ UNCHANGED <<fs, destOps>>
  /\ UNCHANGED <<argv, args, ffmpeg_bin, streams, cmd, real_out, tmp_dir, engine, proc,
                 exit_code, stdout, stderr, launched, scratch, fs0>>
  /\ UNCHANGED plugVars

\* shutil.move(tmp_out, real_out): os.rename when both are on one file system,
\* else a copy to the destination followed by the removal of the source; or it
\* raises before touching the destination
Move(r) ==
  /\ pc[r] = "move"
  /\ \/ /\ fs' = [fs EXCEPT ![real_out[r]] = scratch[tmp_dir[r][1]]]
        /\ scratch' = [scratch EXCEPT ![tmp_dir[r][1]] = EmptyDir]
        /\ LogOp(r, "rename", real_out[r])
        /\ Goto(r, "finally")
        /\ UNCHANGED <<exc, raised>>
     \/ /\ fs' = [fs EXCEPT ![real_out[r]] = PartialFile]
        /\ LogOp(r, "copy", real_out[r])
        /\ Goto(r, "copy")
        /\ UNCHANGED <<exc, raised, scratch>>
     \/ /\ exc' = [exc EXCEPT ![r] = TRUE]
        /\ raised' = [raised EXCEPT ![r] = Some("OSError")]
        /\ Goto(r, "finally")
        /\ UNCHANGED <<fs, scratch, destOps>>
  /\ UNCHANGED <<argv, args, ffmpeg_bin, streams, cmd, real_out, tmp_dir, engine, proc,
                 exit_code, stdout, stderr, launched, fs0>>
  /\ UNCHANGED plugVars

\* the copy of shutil.move completes and the source is removed, or it raises
\* part way and leaves what it wrote
MoveCopy(r) ==
  /\ pc[r] = "copy"
  /\ \/ /\ fs' = [fs EXCEPT ![real_out[r]] = scratch[tmp_dir[r][1]]]
        /\ scratch' = [scratch EXCEPT ![tmp_dir[r][1]] = EmptyDir]
        /\ UNCHANGED <<exc, raised>>
     \/ /\ exc' = [exc EXCEPT ![r] = TRUE]
        /\ raised' = [raised EXCEPT ![r] = Some("OSError")]
        /\ UNCHANGED <<fs, scratch>>
  /\ Goto(r, "finally")
  /\ UNCHANGED <<argv, args, ffmpeg_bin, streams, cmd, real_out, tmp_dir, engine, proc,
                 exit_code, stdout, stderr, launched, fs0, destOps>>
  /\ UNCHANGED plugVars

\* finally: shutil.rmtree(tmp_dir, ignore_errors=True); a pending exception
\* then leaves main()
Finally(r) ==
  /\ pc[r] = "finally"
  /\ scratch' = [scratch EXCEPT ![tmp_dir[r][1]] = NoDir]
  /\ IF exc[r]
       THEN Uncaught(r)
       ELSE /\ Goto(r, "summary")
            /\ UNCHANGED <<exit_code, stderr>>
  /\ UNCHANGED <<argv, raised, args, ffmpeg_bin, streams, cmd, real_out, tmp_dir, engine, proc, exc,
                 stdout, launched, fs, fs0, destOps>>
  /\ UNCHANGED plugVars

\* the test of the v_count sum; IsNotAudio counts every stream that is not audio
IsNotAudio(s) == Get(s, "codec_type") # Some("audio")
IsVideo(s) == Get(s, "codec_type") = Some("video")

\* the summary line with v_count and a_count, and return EXIT_OK
Summary(r) ==
  /\ pc[r] = "summary"
  /\ PrintOut(r, [kind |-> "summary", name |-> Basename(real_out[r]),
                  video |-> Len(SelectSeq(streams[r][1], IsVideo)),
                  audio |-> Len(audio_streams(streams[r][1]))])
  /\ Return(r, EXIT_OK)
  /\ UNCHANGED <<argv, raised, args, ffmpeg_bin, streams, cmd, real_out, tmp_dir, engine, proc, exc,
                 stderr, launched, fsVars>>
  /\ UNCHANGED plugVars

(* ------------------------- cancellation ------------------------------- *)
\* proc.terminate() of the plugin: SIGTERM reaches the converter, which
\* installs no handler, so the process ends at once; its child is not signalled
Terminate(r) ==
  /\ pc[r] \notin {"idle", "exited"}
  /\ pc' = [pc EXCEPT ![r] = "exited"]
  /\ exit_code' = [exit_code EXCEPT ![r] = Some(0 - SIGTERM)]
  /\ UNCHANGED <<argv, raised, args, ffmpeg_bin, streams, cmd, real_out, tmp_dir, engine, proc, exc,
                 stdout, stderr, launched, fsVars>>
  /\ UNCHANGED plugVars

(* ------------------------- specifications ----------------------------- *)
Step(r) ==
  \/ ParseArgs(r)
  \/ ResolveTools(r)
  \/ CheckInput(r)
  \/ CheckOverwrite(r)
  \/ Probe(r)
  \/ Policy(r)
  \/ Build(r)
  \/ MakeTemp(r)
  \/ LaunchEngine(r)
  \/ EngineWrite(r)
  \/ EngineExit(r)
  \/ EngineReturned(r)
  \/ MakeDirs(r)
  \/ ExistsCheck(r)
  \/ Remove(r)
  \/ Move(r)
  \/ MoveCopy(r)
  \/ Finally(r)
  \/ Summary(r)

Next == \E r \in Runs : Step(r)

\* one run of the converter, nothing else touching its files
Spec == Init /\ [][Next]_vars

NextCancel == \E r \in Runs : Step(r) \/ Terminate(r)

\* one run of the converter that its caller may terminate
SpecCancel == Init /\ [][NextCancel]_vars

\* two invocations started together, as the plugin's users may do from two
\* sessions: plain arguments, both writing to d/o.mov
InitConc ==
  /\ InitRun({1, 2})
  /\ NoPlugin
  /\ \A r \in {1, 2} :
       /\ argv[r].threads = None
       /\ argv[r].movflags = None
       /\ ~argv[r].progress
       /\ ~argv[r].no_overwrite
       /\ argv[r].output = "d/o"
  /\ fs["d/o"] = NoFile
  /\ fs["d/o.MOV"] = NoFile

\* two concurrent runs of the converter sharing the file system
SpecConc == InitConc /\ [][Next]_vars

(* ----------------------------- the plugin ----------------------------- *)
\* exit statuses a converter process may end with: its own codes, the status
\* of a wrapper that found no program, and death by SIGTERM
ChildCodes == (EXIT_OK..EXIT_FFMPEG_FAIL) \cup {EXIT_LAUNCH, 0 - SIGTERM}

\* ProgressDialog.pump with the Cancel handler installed: what _cancelled may
\* be after the pending events ran, given what it was
PumpClears(c) == BOOLEAN
Pump(c) == IF c THEN {TRUE} ELSE BOOLEAN

\* the branch main() takes on a converter exit code, 127 handled as a failure
VerdictNoStop(code) ==
  CASE code = 0 -> "replace"
    [] code = 3 -> "skip"
    [] OTHER -> "failed"

\* the branch main() takes on a converter exit code
Verdict(code) ==
  CASE code = 0 -> "replace"
    [] code = 3 -> "skip"
    [] code = 127 -> "stop"
    [] OTHER -> "failed"

\* the batch after the dialogs are up: the selection is not empty
InitPlugin ==
  /\ InitRun({})
  /\ fs = [p \in Paths |-> NoFile]
  /\ ppc = "loop"
  /\ nclips \in 1..MaxClips
  /\ clip = 0
  /\ child = "none"
  /\ nread = 0
  /\ cur_line = None
  /\ conv_rc = None
  /\ bar = 0
  /\ bar_kind \in BarKinds
  /\ cancelled = FALSE
  /\ cur_folder \in Folders
  /\ cur = None
  /\ pexc = FALSE
  /\ bins \in {{}, {ALAC_BIN}}
  /\ calls = << >>

\* for clip in clips: the next clip, skipped when it has no file path
NextClip ==
  /\ ppc = "loop"
  /\ clip < nclips
  /\ clip' = clip + 1
  /\ conv_rc' = None
  /\ cur_line' = None
  /\ nread' = 0
  /\ calls' = <<[op |-> "clip", cancelled |-> cancelled]>>
  /\ \E has_src \in BOOLEAN : ppc' = IF has_src THEN "popen" ELSE "loop"
  /\ UNCHANGED <<nclips, child, bar, bar_kind, cancelled, cur_folder, cur, pexc, bins>>
  /\ UNCHANGED <<convVars, fsVars>>

\* run_converter_with_progress up to the reading loop: Popen raises and 127 is
\* returned, or the converter runs and the dialog shows the file and 0
Popen ==
  /\ ppc = "popen"
  /\ \/ /\ conv_rc' = Some(EXIT_LAUNCH)
        /\ ppc' = "dispatch"
        /\ UNCHANGED <<child, bar, cancelled, calls>>
     \/ /\ child' = "running"
        /\ bar' = set_pct(Num(0))
        /\ \E c \in Pump(cancelled) :
             /\ cancelled' = c
             /\ calls' = Append(calls, [op |-> "Popen", cancelled |-> c])
        /\ ppc' = "read"
        /\ UNCHANGED conv_rc
  /\ UNCHANGED <<nclips, clip, nread, cur_line, bar_kind, cur_folder, cur, pexc, bins>>
  /\ UNCHANGED <<convVars, fsVars>>

\* one iteration of "for line in proc.stdout": terminate and leave when the
\* dialog was cancelled, else show the line's percentage and pump
ReadLine ==
  /\ ppc = "read"
  /\ nread < MaxLines
  /\ nread' = nread + 1
  /\ \E l \in Lines :
       /\ cur_line' = Some(l)
       /\ IF cancelled
            THEN /\ child' = "signalled"
                 /\ calls' = Append(calls, [op |-> "terminate", at |-> nread + 1])
                 /\ ppc' = "wait"
                 /\ UNCHANGED <<bar, cancelled>>
            ELSE /\ bar' = AfterLine(bar, l)
                 /\ cancelled' \in Pump(cancelled)
                 /\ UNCHANGED <<ppc, child, calls>>
  /\ UNCHANGED <<nclips, clip, conv_rc, bar_kind, cur_folder, cur, pexc, bins>>
  /\ UNCHANGED <<convVars, fsVars>>

\* the converter closed its output: the loop ends
ReadEOF ==
  /\ ppc = "read"
  /\ ppc' = "wait"
  /\ UNCHANGED <<nclips, clip, child, nread, cur_line, conv_rc, bar, bar_kind, cancelled,
                 cur_folder, cur, pexc, bins, calls>>
  /\ UNCHANGED <<convVars, fsVars>>

\* rc = proc.wait()
Wait ==
  /\ ppc = "wait"
  /\ \E c \in ChildCodes : conv_rc' = Some(c)
  /\ child' = "none"
  /\ ppc' = "dispatch"
  /\ UNCHANGED <<nclips, clip, nread, cur_line, bar, bar_kind, cancelled, cur_folder, cur,
                 pexc, bins, calls>>
  /\ UNCHANGED <<convVars, fsVars>>

\* rc == 0: clip.ReplaceClip(out_path) returns true, returns false or raises
Replace ==
  /\ ppc = "dispatch"
  /\ Verdict(conv_rc[1]) = "replace"
  /\ \E res \in {"ok", "fail", "raise"} :
       /\ calls' = Append(calls, [op |-> "ReplaceClip", res |-> res])
       /\ ppc' = IF res = "ok" THEN "loop" ELSE "import_set"
  /\ UNCHANGED <<nclips, clip, child, nread, cur_line, conv_rc, bar, bar_kind, cancelled,
                 cur_folder, cur, pexc, bins>>
  /\ UNCHANGED <<convVars, fsVars>>

\* rc == 3: the clip is skipped
SkipNotAac ==
  /\ ppc = "dispatch"
  /\ Verdict(conv_rc[1]) = "skip"
  /\ ppc' = "loop"
  /\ UNCHANGED <<nclips, clip, child, nread, cur_line, conv_rc, bar, bar_kind, cancelled,
                 cur_folder, cur, pexc, bins, calls>>
  /\ UNCHANGED <<convVars, fsVars>>

\* rc == 127: break
Stop ==
  /\ ppc = "dispatch"
  /\ Verdict(conv_rc[1]) = "stop"
  /\ ppc' = "break"
  /\ UNCHANGED <<nclips, clip, child, nread, cur_line, conv_rc, bar, bar_kind, cancelled,
                 cur_folder, cur, pexc, bins, calls>>
  /\ UNCHANGED <<convVars, fsVars>>

\* any other rc: the failure is printed
Failed ==
  /\ ppc = "dispatch"
  /\ Verdict(conv_rc[1]) = "failed"
  /\ ppc' = "loop"
  /\ UNCHANGED <<nclips, clip, child, nread, cur_line, conv_rc, bar, bar_kind, cancelled,
                 cur_folder, cur, pexc, bins, calls>>
  /\ UNCHANGED <<convVars, fsVars>>

\* ensure_root_bin, then import_into_bin up to SetCurrentFolder(folder_obj)
ImportSet ==
  /\ ppc = "import_set"
  /\ bins' = bins \cup {ALAC_BIN}
  /\ cur' = Some(cur_folder)
  /\ cur_folder' = ALAC_BIN
  /\ ppc' = "import_media"
  /\ UNCHANGED <<nclips, clip, child, nread, cur_line, conv_rc, bar, bar_kind, cancelled,
                 pexc, calls>>
  /\ UNCHANGED <<convVars, fsVars>>

\* media_pool.ImportMedia(paths): returns, or raises
ImportMedia ==
  /\ ppc = "import_media"
  /\ calls' = Append(calls, [op |-> "ImportMedia", folder |-> cur_folder])
  /\ pexc' \in BOOLEAN
  /\ ppc' = "import_restore"
  /\ UNCHANGED <<nclips, clip, child, nread, cur_line, conv_rc, bar, bar_kind, cancelled,
                 cur_folder, cur, bins>>
  /\ UNCHANGED <<convVars, fsVars>>

\* finally: SetCurrentFolder(cur); an exception of ImportMedia then leaves
\* main(), which nothing catches
ImportRestore ==
  /\ ppc = "import_restore"
  /\ cur_folder' = cur[1]
  /\ cur' = None
  /\ ppc' = IF pexc THEN "crashed" ELSE "loop"
  /\ UNCHANGED <<nclips, clip, child, nread, cur_line, conv_rc, bar, bar_kind, cancelled, pexc,
                 bins, calls>>
  /\ UNCHANGED <<convVars, fsVars>>

\* the loop is over, by exhaustion or by break: progress.close()
Close ==
  /\ \/ ppc = "loop" /\ clip = nclips
     \/ ppc = "break"
  /\ ppc' = "done"
  /\ UNCHANGED <<nclips, clip, child, nread, cur_line, conv_rc, bar, bar_kind, cancelled,
                 cur_folder, cur, pexc, bins, calls>>
  /\ UNCHANGED <<convVars, fsVars>>

NextPlugin ==
  \/ NextClip
  \/ Popen
  \/ ReadLine
  \/ ReadEOF
  \/ Wait
  \/ Replace
  \/ SkipNotAac
  \/ Stop
  \/ Failed
  \/ ImportSet
  \/ ImportMedia
  \/ ImportRestore
  \/ Close

\* one batch of the plugin over its selection
SpecPlugin == InitPlugin /\ [][NextPlugin]_vars

(* ============================== claims ================================ *)
Exited(r) == pc[r] = "exited"

\* the scratch directory of run r is gone (or was never made)
ScratchGone(r) == IsNone(tmp_dir[r]) \/ scratch[tmp_dir[r][1]] = NoDir

\* the destination path of run r: the output argument with the extension
Destination(r) == IF EndsWith(Lower(argv[r].output), ".mov")
                    THEN argv[r].output ELSE Concat(argv[r].output, ".mov")

LastErr(r) == stderr[r][Len(stderr[r])]

\* C1: when the finalize stage fails (os.remove or shutil.move raises), the
\* destination holds what it held before the run and the scratch directory
\* with the temporary file is removed.
C1_FinalizeFailureKeepsDestination ==
  \A r \in Runs :
    (Exited(r) /\ exc[r]) => (fs[real_out[r]] = fs0[real_out[r]] /\ ScratchGone(r))

\* C2: when the engine exits non-zero the run ends with exit code 4, the
\* scratch directory is removed before the process exits and the destination
\* is untouched.
C2_EngineFailureCleansUp ==
  \A r \in Runs :
    (Exited(r) /\ engine[r] = "exit1") =>
      (exit_code[r] = Some(EXIT_FFMPEG_FAIL) /\ ScratchGone(r) /\ fs = fs0)

\* codec names of the audio streams that are not aac whatever the case
OffendingNames(ss) ==
  {ss[i].codec_name : i \in {j \in 1..Len(ss) :
      /\ "codec_type" \in DOMAIN ss[j] /\ ss[j].codec_type = "audio"
      /\ "codec_name" \in DOMAIN ss[j] /\ Lower(ss[j].codec_name) # "aac"}}

\* some audio stream carries no codec name
SomeNameless(ss) ==
  \E i \in 1..Len(ss) :
    /\ "codec_type" \in DOMAIN ss[i] /\ ss[i].codec_type = "audio"
    /\ "codec_name" \notin DOMAIN ss[i]

NoAudio(ss) == \A i \in 1..Len(ss) : "codec_type" \in DOMAIN ss[i] => ss[i].codec_type # "audio"

MustReject(ss) == NoAudio(ss) \/ OffendingNames(ss) # {} \/ SomeNameless(ss)

PolicyDecided(r) == ~IsNone(streams[r]) /\ pc[r] # "policy"

\* C3: a probed stream list with no audio stream, or with an audio stream whose
\* codec is not aac (case-insensitive), is rejected: the run ends with exit code
\* 3, the engine is never launched, and the reason lists every distinct
\* offending codec name exactly once, in sorted order (an audio stream without
\* a codec name is listed as "?").
C3_PolicyRejects ==
  \A r \in Runs :
    (PolicyDecided(r) /\ MustReject(streams[r][1])) =>
      /\ Exited(r)
      /\ exit_code[r] = Some(EXIT_NOT_AAC)
      /\ \A i \in 1..Len(launched[r]) : launched[r][i] # "ffmpeg"
      /\ stderr[r] # << >>
      /\ IF NoAudio(streams[r][1])
           THEN LastErr(r).kind = "no_audio"
           ELSE /\ LastErr(r).kind = "rejected"
                /\ LET L == LastErr(r).found
                   IN  /\ \A i, j \in 1..Len(L) : i < j => StrLess(L[i], L[j])
                       /\ Range(L) = OffendingNames(streams[r][1])
                                       \cup (IF SomeNameless(streams[r][1]) THEN {"?"} ELSE {})

\* a rejection whose reason has two names that the streams carry in the other order
C3_Witness ==
  \E r \in Runs :
    /\ Exited(r) /\ exit_code[r] = Some(EXIT_NOT_AAC)
    /\ LastErr(r).kind = "rejected"
    /\ Len(LastErr(r).found) = 2
    /\ Get(streams[r][1][1], "codec_name") = Some(LastErr(r).found[2])

MustAccept(ss) ==
  /\ ~NoAudio(ss)
  /\ \A i \in 1..Len(ss) :
       ("codec_type" \in DOMAIN ss[i] /\ ss[i].codec_type = "audio") =>
         ("codec_name" \in DOMAIN ss[i] /\ Lower(ss[i].codec_name) = "aac")

\* C4: a probed stream list with at least one audio stream, all of them aac
\* under case-insensitive compare, is accepted: the run does not exit with
\* code 3 and goes on to build and launch the engine command.
C4_PolicyAccepts ==
  \A r \in Runs :
    (PolicyDecided(r) /\ MustAccept(streams[r][1])) =>
      /\ exit_code[r] # Some(EXIT_NOT_AAC)
      /\ \/ pc[r] \in {"build", "mkdtemp", "launch"}
         \/ /\ \E i \in 1..Len(launched[r]) : launched[r][i] = "ffmpeg"
            /\ cmd[r] # << >>

\* an accepted list with an upper-case AAC stream whose engine was launched
C4_Witness ==
  \E r \in Runs :
    /\ PolicyDecided(r) /\ MustAccept(streams[r][1])
    /\ \E i \in 1..Len(streams[r][1]) :
         "codec_name" \in DOMAIN streams[r][1][i] /\ streams[r][1][i].codec_name = "AAC"
    /\ \E i \in 1..Len(launched[r]) : launched[r][i] = "ffmpeg"

\* C5: when the destination already exists and overwrite is forbidden, the run
\* ends with exit code 1 before any subprocess (prober or engine) is launched.
C5_NoOverwriteExitsEarly ==
  \A r \in Runs :
    (pc[r] # "idle" /\ argv[r].no_overwrite /\ fs0[Destination(r)] # NoFile) =>
      /\ launched[r] = << >>
      /\ Exited(r) => exit_code[r] = Some(EXIT_ARGS)

\* C6: with --no-overwrite, the finalize step never removes or replaces a file
\* that exists at the destination path.
C6_NoOverwriteNeverRemoves ==
  \A r \in Runs :
    argv[r].no_overwrite =>
      \A i \in 1..Len(destOps[r]) : destOps[r][i].before = NoFile

\* C7: invoked with --progress, the converter accepts the flag, writes PROGRESS
\* lines to standard output and, on success, a final DONE line, exiting 0.
C7_ProgressProtocol ==
  \A r \in Runs :
    (argv[r].progress /\ Exited(r)) =>
      /\ \A i \in 1..Len(stderr[r]) : stderr[r][i].kind # "usage"
      /\ exit_code[r] = Some(EXIT_OK) =>
           (stdout[r] # << >> /\ stdout[r][Len(stdout[r])].kind = "done")

\* C8: after a cancelled conversion the scratch directory with the partial
\* output does not survive and the engine is no longer running.
C8_CancelCleansUp ==
  \A r \in Runs :
    exit_code[r] = Some(0 - SIGTERM) => (ScratchGone(r) /\ engine[r] # "running")

\* C9: every failure path writes at least one diagnostic line before the
\* process exits with its code.
C9_EveryFailureHasDiagnostic ==
  \A r \in Runs :
    (Exited(r) /\ exit_code[r] # Some(EXIT_OK)) => stderr[r] # << >>

\* C10: every terminating run exits with a code of the table and the code
\* matches the outcome: 0 only when engine and finalize succeeded, 1 only for
\* bad arguments, 2 only for missing tools or a failed probe, 3 only for a
\* policy rejection, 4 only when the engine exited non-zero.
C10_ExitCodesMatchOutcome ==
  \A r \in Runs :
    Exited(r) =>
      /\ exit_code[r] \in {Some(EXIT_OK), Some(EXIT_ARGS), Some(EXIT_TOOLS),
                           Some(EXIT_NOT_AAC), Some(EXIT_FFMPEG_FAIL)}
      /\ exit_code[r] = Some(EXIT_OK) =>
           (engine[r] = "exit0" /\ ~exc[r] /\ fs[real_out[r]] = NewFile)
      /\ exit_code[r] = Some(EXIT_ARGS) =>
           (stderr[r] # << >> /\ LastErr(r).kind \in {"input_not_found", "output_exists"})
      /\ exit_code[r] = Some(EXIT_TOOLS) =>
           (stderr[r] # << >> /\ LastErr(r).kind \in {"tools_not_found", "ffprobe_error"})
      /\ exit_code[r] = Some(EXIT_NOT_AAC) =>
           (stderr[r] # << >> /\ LastErr(r).kind \in {"no_audio", "rejected"})
      /\ exit_code[r] = Some(EXIT_FFMPEG_FAIL) => engine[r] = "exit1"

(* ------------------------- orchestrator order ------------------------- *)
\* the state of the orchestrator a run is in: 0 Init, 1 Probed, 2 Validated,
\* 3 Built, 4 Running, 5 Finalizing, 6 Done or Failed
Stage(label) ==
  CASE label \in {"idle", "parse", "resolve", "check_input", "check_overwrite", "probe"} -> 0
    [] label = "policy" -> 1
    [] label = "build" -> 2
    [] label \in {"mkdtemp", "launch"} -> 3
    [] label = "wait" -> 4
    [] label \in {"makedirs", "exists", "remove", "move", "copy", "finally", "summary"} -> 5
    [] label = "exited" -> 6

EngineLaunched(r) == \E i \in 1..Len(launched[r]) : launched[r][i] = "ffmpeg"

\* the engine runs only after a successful probe of an accepted list, and a
\* rejected run has made no scratch directory and left the destination alone
C11_State ==
  \A r \in Runs :
    /\ EngineLaunched(r) =>
         /\ launched[r] = <<"ffprobe", "ffmpeg">>
         /\ ~IsNone(streams[r]) /\ MustAccept(streams[r][1])
    /\ Stage(pc[r]) >= 1 /\ Stage(pc[r]) <= 5 => ~IsNone(streams[r])
    /\ Stage(pc[r]) >= 2 /\ Stage(pc[r]) <= 5 => MustAccept(streams[r][1])
    /\ exit_code[r] = Some(EXIT_NOT_AAC) =>
         /\ Exited(r)
         /\ IsNone(tmp_dir[r]) /\ \A t \in TmpNames : scratch[t] = NoDir
         /\ ~EngineLaunched(r) /\ engine[r] = "none"
         /\ destOps[r] = << >> /\ fs = fs0

\* a run stays in its state, moves to the next one, or ends; an ended run
\* stays ended with the code it has
C11_Step ==
  \A r \in Runs :
    /\ Stage(pc'[r]) \in {Stage(pc[r]), Stage(pc[r]) + 1, 6}
    /\ Exited(r) => (pc'[r] = "exited" /\ exit_code'[r] = exit_code[r])

\* C11: the orchestrator goes through Init, Probed, Validated, Built, Running,
\* Finalizing, Done|Failed in order: the engine is launched only after the probe
\* succeeded and the Policy Gate accepted, and a policy rejection is terminal
\* with no partial output (no scratch directory, no engine launched, the
\* destination neither created nor modified).
C11_OrchestratorOrder == [](C11_State) /\ [][C11_Step]_vars

\* a rejected run whose destination existed before
C11_Witness ==
  \E r \in Runs :
    /\ exit_code[r] = Some(EXIT_NOT_AAC)
    /\ fs0[Destination(r)] = OldFile
    /\ launched[r] = <<"ffprobe">>

(* --------------------------- successful run --------------------------- *)
\* number of streams of a list whose codec_type is the given one
CountType(ss, type) ==
  Cardinality({i \in 1..Len(ss) : "codec_type" \in DOMAIN ss[i] /\ ss[i].codec_type = type})

\* no exception left main()
NoTraceback(r) == \A i \in 1..Len(stderr[r]) : stderr[r][i].kind # "traceback"

\* C12: for every accepted input on which the engine exits zero and finalize
\* succeeds, the run exits 0, a file exists at the destination path, which
\* carries the .mov extension (appended when the output argument lacked it),
\* the scratch directory is removed, and the summary reports the numbers of
\* video and audio streams of the probe.
C12_SuccessfulRun ==
  \A r \in Runs :
    (Exited(r) /\ engine[r] = "exit0" /\ NoTraceback(r)) =>
      /\ exit_code[r] = Some(EXIT_OK)
      /\ real_out[r] = Destination(r)
      /\ EndsWith(Lower(real_out[r]), ".mov")
      /\ ~EndsWith(Lower(argv[r].output), ".mov") => real_out[r] = Concat(argv[r].output, ".mov")
      /\ fs[real_out[r]] = NewFile
      /\ ScratchGone(r) /\ \A t \in TmpNames : scratch[t] = NoDir
      /\ stdout[r] # << >>
      /\ LET last == stdout[r][Len(stdout[r])]
         IN  /\ last.kind = "summary"
             /\ last.name = Basename(real_out[r])
             /\ last.video = CountType(streams[r][1], "video")
             /\ last.audio = CountType(streams[r][1], "audio")

\* a successful run on one video and one AAC stream whose output argument
\* lacked the extension
C12_Witness ==
  \E r \in Runs :
    /\ exit_code[r] = Some(EXIT_OK)
    /\ argv[r].output = "d/o" /\ fs["d/o.mov"] = NewFile
    /\ Len(streams[r][1]) = 2
    /\ stdout[r][Len(stdout[r])].video = 1
    /\ stdout[r][Len(stdout[r])].audio = 1

(* -------------------------- command builder --------------------------- *)
\* the tokens of part appear in c, next to each other and in that order
HasRun(c, part) ==
  \E i \in 1..(Len(c) - Len(part) + 1) : SubSeq(c, i, i + Len(part) - 1) = part

HasToken(c, tok) == \E i \in 1..Len(c) : c[i] = tok

\* C14: the command always maps video, subtitle, data and timecode streams as
\* copy and audio as alac, each mapping optional ("?"), whatever streams are
\* present and whatever the thread hint and the movflags override; it always
\* carries -y, and carries +faststart unless the caller gave an override.
C14_CommandBuilder ==
  \A r \in Runs :
    cmd[r] # << >> =>
      /\ HasRun(cmd[r], <<"-map", "0:v?", "-c:v", "copy">>)
      /\ HasRun(cmd[r], <<"-map", "0:a?", "-c:a", "alac">>)
      /\ HasRun(cmd[r], <<"-map", "0:s?", "-c:s", "copy">>)
      /\ HasRun(cmd[r], <<"-map", "0:d?", "-c:d", "copy">>)
      /\ HasRun(cmd[r], <<"-map", "0:t?", "-c:t", "copy">>)
      /\ Cardinality({i \in 1..Len(cmd[r]) : cmd[r][i] = "-map"}) = 5
      /\ \A i \in 1..Len(cmd[r]) :
           cmd[r][i] = "-map" => cmd[r][i + 1] \in {"0:v?", "0:a?", "0:s?", "0:d?", "0:t?"}
      /\ HasToken(cmd[r], "-y")
      /\ IF IsNone(argv[r].movflags)
           THEN HasRun(cmd[r], <<"-movflags", "+faststart">>)
           ELSE /\ ~HasToken(cmd[r], "+faststart")
                /\ IF argv[r].movflags[1] = ""
                     THEN ~HasToken(cmd[r], "-movflags")
                     ELSE HasRun(cmd[r], <<"-movflags", argv[r].movflags[1]>>)
      /\ IF argv[r].threads = Some(4)
           THEN HasRun(cmd[r], <<"-threads", "4">>)
           ELSE ~HasToken(cmd[r], "-threads")

\* a command built for an input without video or subtitle streams, with a
\* zero thread hint and an empty movflags override, that the engine was given
C14_Witness ==
  \E r \in Runs :
    /\ EngineLaunched(r)
    /\ argv[r].threads = Some(0) /\ argv[r].movflags = Some("")
    /\ CountType(streams[r][1], "video") = 0
    /\ CountType(streams[r][1], "subtitle") = 0

HoldsScratch(r) ==
  pc[r] \in {"launch", "wait", "makedirs", "exists", "remove", "move", "copy", "finally"}

\* C13: conversions run concurrently without coordination: the scratch
\* directories of two running conversions are distinct, every run ends with one
\* of the declared exit codes, no run's finalize stage fails because another
\* run removed the destination under it, and when both runs report success the
\* destination holds a complete new file.
C13_ConcurrentRuns ==
  /\ \A r1, r2 \in Runs :
       r1 # r2 /\ HoldsScratch(r1) /\ HoldsScratch(r2) => tmp_dir[r1] # tmp_dir[r2]
  /\ \A r \in Runs :
       /\ Exited(r) => exit_code[r] \in {Some(c) : c \in EXIT_OK..EXIT_FFMPEG_FAIL}
       /\ raised[r] # Some("FileNotFoundError")
  /\ (\A r \in {1, 2} : Exited(r) /\ exit_code[r] = Some(EXIT_OK))
       => \A r \in {1, 2} : fs[Destination(r)] = NewFile

\* the plugin read a line and handled it (the dialog was not cancelled)
HandledLine == ppc = "read" /\ ~cancelled /\ nread' = nread + 1

\* C15: the number the progress widget shows is always an integer in 0..100:
\* a PROGRESS line with a number shows that number truncated and clamped
\* (42.5 shows 42, 7 shows 7, -3.5 shows 0, 250.9 and nan show 100), in
\* whatever order the lines come, and a PROGRESS line without a number, like
\* any other line, leaves the shown number as it was.
C15_ProgressClamped ==
  /\ [](bar \in 0..100)
  /\ [][HandledLine =>
          /\ cur_line' = Some("PROGRESS 42.5") => bar' = 42
          /\ cur_line' = Some("PROGRESS 7") => bar' = 7
          /\ cur_line' = Some("PROGRESS -3.5") => bar' = 0
          /\ cur_line' = Some("PROGRESS 250.9") => bar' = 100
          /\ cur_line' = Some("PROGRESS nan") => bar' = 100
          /\ cur_line' \in {Some("PROGRESS x"), Some("PROGRESS"), Some("Done")}
               => bar' = bar]_vars

\* a value above 100 arrived as the second line of a converter and 100 is shown
C15_Witness ==
  /\ ppc = "read"
  /\ nread = 2
  /\ cur_line = Some("PROGRESS 250.9")
  /\ bar = 100

\* the current iteration made the call op
Called(op) == \E i \in 1..Len(calls) : calls[i].op = op

\* the last entry of calls' is new and is the call op
NowCalls(op) ==
  /\ Len(calls') = Len(calls) + 1
  /\ SubSeq(calls', 1, Len(calls)) = calls
  /\ calls'[Len(calls')].op = op

C17_State ==
  /\ Called("ReplaceClip") \/ Called("ImportMedia") => conv_rc = Some(0)
  /\ \A i \in 1..Len(calls) :
       calls[i].op = "ImportMedia" =>
         /\ calls[i].folder = "ALAC Converted"
         /\ calls[i - 1].op = "ReplaceClip"
         /\ calls[i - 1].res # "ok"
  /\ ppc \notin {"import_media", "import_restore"} => cur_folder \in Folders
  /\ ppc = "break" => conv_rc = Some(127)

C17_Step ==
  /\ ppc = "dispatch" /\ conv_rc = Some(0) =>
       /\ NowCalls("ReplaceClip")
       /\ ppc' = IF calls'[Len(calls')].res = "ok" THEN "loop" ELSE "import_set"
  /\ ppc = "import_set" => ppc' = "import_media" /\ calls' = calls
  /\ ppc = "import_media" => ppc' = "import_restore" /\ NowCalls("ImportMedia")
  /\ ppc = "import_restore" => cur_folder' \in Folders /\ ppc' \in {"loop", "crashed"}
  /\ ppc = "dispatch" /\ conv_rc = Some(3) => ppc' = "loop" /\ calls' = calls
  /\ ppc = "dispatch" /\ conv_rc = Some(127) => ppc' = "break" /\ calls' = calls
  /\ ppc = "break" => ppc' = "done" /\ clip' = clip
  /\ ppc = "dispatch" /\ conv_rc \notin {Some(0), Some(3), Some(127)} =>
       ppc' = "loop" /\ calls' = calls
  /\ ppc = "loop" /\ clip < nclips => clip' = clip + 1 /\ ppc' \in {"loop", "popen"}
  /\ ppc = "done" => ppc' = "done"

\* C17: per clip, exit code 0 leads to ReplaceClip and, when that fails or
\* raises, to an import into the "ALAC Converted" bin after which the folder
\* that was current is current again; 3 skips the clip and the loop goes on;
\* 127 ends the loop with the remaining clips untouched; any other code is a
\* failure and the loop goes on; ReplaceClip and ImportMedia are called only
\* for a clip whose converter returned 0.
C17_ExitCodeDispatch == [](C17_State) /\ [][C17_Step]_vars

\* a clip converted, could not be replaced, and was imported into the bin,
\* and the folder is restored
C17_Witness ==
  /\ ppc = "loop"
  /\ conv_rc = Some(0)
  /\ Called("ImportMedia")
  /\ cur_folder \in Folders

C18_State ==
  /\ \A i \in 1..Len(calls) :
       calls[i].op = "terminate" =>
         /\ cancelled
         /\ calls[i - 1].op = "Popen"
         /\ calls[1].cancelled \/ calls[i - 1].cancelled => calls[i].at = 1
  /\ ppc \in {"break", "done"} => clip = nclips \/ conv_rc = Some(127)

C18_Step ==
  /\ cancelled => cancelled'
  /\ cancelled /\ ppc = "loop" /\ clip < nclips => clip' = clip + 1
  /\ cancelled /\ ppc = "popen" =>
       \/ ppc' = "read" /\ NowCalls("Popen")
       \/ ppc' = "dispatch" /\ conv_rc' = Some(127)
  /\ cancelled /\ ppc = "read" /\ nread' = nread + 1 =>
       /\ NowCalls("terminate")
       /\ calls'[Len(calls')].at = nread'
       /\ ppc' = "wait"
  /\ calls' # calls /\ calls' # << >> /\ calls'[Len(calls')].op = "terminate" =>
       ppc = "read" /\ nread' = nread + 1
  /\ ppc = "read" /\ nread' = nread => calls' = calls /\ ppc' = "wait"
  /\ cancelled /\ ppc = "dispatch" /\ conv_rc # Some(127) => ppc' \in {"loop", "import_set"}

\* C18: the cancel flag, once set, stays set for the rest of the batch; the
\* loop does not end because of it (it ends when the clips are exhausted or a
\* converter returned 127); every later clip's converter is still started and
\* is sent terminate when its first line is read; and terminate is sent only
\* in a step that reads a line, never at end of output.
C18_CancelMonotone == [](C18_State) /\ [][C18_Step]_vars

\* the second clip began with the flag set, its converter was started and was
\* terminated at its first line
C18_Witness ==
  /\ clip = 2
  /\ Len(calls) = 3
  /\ calls[1].cancelled
  /\ calls[2].op = "Popen"
  /\ calls[3].op = "terminate"
  /\ calls[3].at = 1
====
